---- MODULE Spec2Model ----
(***************************************************************************)
(* Model of the paginated PDF export of AIHR Studio (src/App.tsx).         *)
(*                                                                         *)
(* Two specifications share this module:                                   *)
(*   PagSpec - the pagination loop of generate() run on arbitrary block    *)
(*             height lists and budgets, one loop iteration per step;      *)
(*   Spec    - the application: export requests, the export effect, the    *)
(*             generate() tasks with their suspension points, the staging  *)
(*             container, the jsPDF document and the chrome drawn on it.   *)
(* JavaScript runs every synchronous stretch of a task to completion, so   *)
(* in Spec one action is one stretch between two suspension points.        *)
(***************************************************************************)
EXTENDS Integers, Sequences, FiniteSets, TLC

\* ---------------------------------------------------------------- bounds
\* longest block list given to the pagination loop in PagSpec
MaxLen == 3
\* number of export requests made in one behaviour of Spec
MaxJobs == 2
\* last calendar day the clock can reach in Spec
MaxDay == 1
\* last calendar day a run of PagSpec can start on
MaxClock == 2
\* number of candidates in the list of RankSpec
MaxCands == 3
\* longest guide text, in characters, that TplSpec enumerates in full
MaxText == 4
\* number of risks and of metrics of a report in TplSpec
MaxItems == 2
\* number of resumes added in one behaviour of BatchSpec
MaxUploads == 3
\* number of times the page is loaded again in BatchSpec
MaxReloads == 1
\* largest retries argument withRetry is called with
MaxRetries == 3
\* files uploaded in all, and uploads
MaxFiles == 3
MaxDrops == 2

\* ------------------------------------------------------ program constants
PAGE_WIDTH_MM == 210
PAGE_HEIGHT_MM == 297
MARGIN_TOP_MM == 20
MARGIN_BOTTOM_MM == 20
SAFETY_MM == 5
CONTENT_HEIGHT_MM == PAGE_HEIGHT_MM - MARGIN_TOP_MM - MARGIN_BOTTOM_MM

\* block heights (px) given to the pagination loop: 100 + 152 fills a 252 px
\* page exactly and 200 + 300 a 500 px page, 300 and 900 exceed them, 0 is
\* what a detached element measures
Heights == {0, 100, 152, 200, 250, 300, 900}
\* rendered widths (px) of the export container: multiples of PAGE_WIDTH_MM
\* so that the px-per-mm factor is a whole number; 0 is a detached element
Widths == {0, 210, 420}

\* mutant: the 5 mm safety buffer is not subtracted
MaxContentHeightPxNoSafety(containerWidthPx) ==
    (CONTENT_HEIGHT_MM * containerWidthPx) \div PAGE_WIDTH_MM

\* maxContentHeightPx = (CONTENT_HEIGHT_MM - 5) * (containerWidthPx / 210)
MaxContentHeightPx(containerWidthPx) ==
    ((CONTENT_HEIGHT_MM - SAFETY_MM) * containerWidthPx) \div PAGE_WIDTH_MM

\* budgets (px) given to the pagination loop: those of the rendered widths,
\* and 500
Budgets == {MaxContentHeightPx(w) : w \in Widths} \cup {500}

\* getElementHeight: offsetHeight + marginTop + marginBottom, where a margin
\* that does not parse as a number counts as 0
GetElementHeight(offsetHeight, marginTop, marginBottom) ==
    offsetHeight + marginTop + marginBottom

\* ------------------------------------------------------- pagination loop
\* pages = [], currentPage = [], currentHeight = 0
LoopInit == [pages |-> <<>>, currentPage |-> <<>>, currentHeight |-> 0]

\* mutant: the block that does not fit is not carried to the new page
PageStepDrop(st, child, h, max) ==
    IF st.currentHeight + h > max /\ Len(st.currentPage) > 0
    THEN [pages |-> Append(st.pages, st.currentPage),
          currentPage |-> <<>>,
          currentHeight |-> 0]
    ELSE [pages |-> st.pages,
          currentPage |-> Append(st.currentPage, child),
          currentHeight |-> st.currentHeight + h]

\* mutant: a block that fills the page exactly is moved to the next page
PageStepBreakOnEqual(st, child, h, max) ==
    IF st.currentHeight + h >= max /\ Len(st.currentPage) > 0
    THEN [pages |-> Append(st.pages, st.currentPage),
          currentPage |-> <<child>>,
          currentHeight |-> h]
    ELSE [pages |-> st.pages,
          currentPage |-> Append(st.currentPage, child),
          currentHeight |-> st.currentHeight + h]

\* mutant: the new page starts with height 0 instead of the block's height
PageStepForgetHeight(st, child, h, max) ==
    IF st.currentHeight + h > max /\ Len(st.currentPage) > 0
    THEN [pages |-> Append(st.pages, st.currentPage),
          currentPage |-> <<child>>,
          currentHeight |-> 0]
    ELSE [pages |-> st.pages,
          currentPage |-> Append(st.currentPage, child),
          currentHeight |-> st.currentHeight + h]

\* mutant: an empty page is recognised by its height instead of its length
PageStepEmptyByHeight(st, child, h, max) ==
    IF st.currentHeight + h > max /\ st.currentHeight > 0
    THEN [pages |-> Append(st.pages, st.currentPage),
          currentPage |-> <<child>>,
          currentHeight |-> h]
    ELSE [pages |-> st.pages,
          currentPage |-> Append(st.currentPage, child),
          currentHeight |-> st.currentHeight + h]

\* one iteration of "for (const child of children)"
PageStep(st, child, h, max) ==
    IF st.currentHeight + h > max /\ Len(st.currentPage) > 0
    THEN [pages |-> Append(st.pages, st.currentPage),
          currentPage |-> <<child>>,
          currentHeight |-> h]
    ELSE [pages |-> st.pages,
          currentPage |-> Append(st.currentPage, child),
          currentHeight |-> st.currentHeight + h]

\* mutant: the last page is pushed without testing that it holds a block
PageFlushAlways(st) == Append(st.pages, st.currentPage)

\* if (currentPage.length > 0) pages.push(currentPage)
PageFlush(st) ==
    IF Len(st.currentPage) > 0 THEN Append(st.pages, st.currentPage)
    ELSE st.pages

RECURSIVE PaginateFrom(_, _, _, _)
PaginateFrom(st, heights, k, max) ==
    IF k > Len(heights) THEN PageFlush(st)
    ELSE PaginateFrom(PageStep(st, k, heights[k], max), heights, k + 1, max)

\* the whole loop: children are named by their position 1..Len(heights)
Paginate(heights, max) == PaginateFrom(LoopInit, heights, 1, max)

\* ------------------------------------------------------------- helpers
RECURSIVE Flatten(_)
Flatten(ps) == IF ps = <<>> THEN <<>> ELSE Head(ps) \o Flatten(Tail(ps))

RECURSIVE SumHeights(_, _)
SumHeights(page, heights) ==
    IF page = <<>> THEN 0
    ELSE heights[Head(page)] + SumHeights(Tail(page), heights)

Iota(n) == [k \in 1..n |-> k]

SeqsUpTo(S, n) == UNION {[1..m -> S] : m \in 0..n}


\* ----------------------------------------------------------------- state
VARIABLES
    \* PagSpec: one run of the pagination loop
    pgHeights,    \* measured height h of each child, in child order
    pgBudget,     \* maxContentHeightPx
    pgPc,         \* "idle" | "loop" | "done"
    pgSt,         \* pages, currentPage, currentHeight
    pgIdx,        \* number of children the loop has consumed
    pgPages,      \* the partition of the run that finished last
    pgRun,        \* 1 on the first run over the input, 2 on the repeated run
    pgFirst,      \* the partition, clock and candidate of the first run
    pgClock,      \* wall clock at the start of the run
    pgCand,       \* candidate of the request the run belongs to
    \* Spec: the application
    exportData,   \* React state: the export request, or NoData (null)
    mounted,      \* pdfExportRef.current: element id, 0 when null
    dom,          \* the export container elements ever mounted, by id
    jobs,         \* the generate() tasks, in the order they were scheduled
    today,        \* calendar day new Date() returned last
    \* NameSpec: the file name of one export
    fnIn,         \* export type, language, job title, candidate name, analysis
    fnPc,         \* "idle" | "saved"
    fnOut,        \* the name handed to pdf.save
    \* RankSpec: the dashboard list
    rkCandidates, \* React state: candidates
    rkPc,         \* "idle" | "rendered"
    rkRows,       \* the rows renderDashboard shows: rank and candidate id
    \* TplSpec: the export container rendered for one request
    tpIn,         \* export type, guide text, risks, metrics, detail
    tpPc,         \* "idle" | "rendered"
    tpBlocks,     \* the children of the container, in document order
    \* BatchSpec: the candidates and the analysis batch
    anJob,            \* jobConfig.description and the metric weights
    anCandidates,     \* React state: candidates, by id and status
    isProcessing,     \* React state
    analysisProgress, \* React state: current and total
    anTask,           \* the running handleStartAnalysis: its queue and index
    anAlert,          \* outcome of the last click on start: alert or "started"
    anNextId,         \* id of the next candidate added
    anReloads,        \* number of page loads after the first
    \* RetrySpec: one call of withRetry
    retries,      \* argument: the number of attempts
    delay,        \* argument: the base backoff, in ms
    rtPc,         \* "idle" | "calling" | "waiting" | "returned" | "thrown"
    rtI,          \* the loop variable i
    lastError,    \* the error caught last, "undefined" before the first
    rtCalls,      \* outcome of every invocation of fn, in order
    rtWaits,      \* every backoff timer that fired, in ms, in order
    rtOut,        \* what the call settled with: a value or an error
    \* UploadSpec: the upload queue of the resume import view
    uploadQueue,  \* React state: the queue items shown
    upTasks,      \* the processFiles calls: their items and loop position
    upParses,     \* id of every item handed to parseFile, in order
    upAdded,      \* every candidate handed to onAddCandidate, in order
    upNextId      \* number of the next upload

pgVars == <<pgHeights, pgBudget, pgPc, pgSt, pgIdx, pgPages, pgRun, pgFirst,
            pgClock, pgCand>>
appVars == <<exportData, mounted, dom, jobs, today>>
fnVars == <<fnIn, fnPc, fnOut>>
rkVars == <<rkCandidates, rkPc, rkRows>>
tpVars == <<tpIn, tpPc, tpBlocks>>
anVars == <<anJob, anCandidates, isProcessing, analysisProgress, anTask,
            anAlert, anNextId, anReloads>>
rtVars == <<retries, delay, rtPc, rtI, lastError, rtCalls, rtWaits, rtOut>>
upVars == <<uploadQueue, upTasks, upParses, upAdded, upNextId>>
restVars == <<tpVars, anVars, rtVars, upVars>>
nonAppVars == <<pgVars, fnVars, rkVars, restVars>>
nonPagVars == <<appVars, fnVars, rkVars, restVars>>
vars == <<pgHeights, pgBudget, pgPc, pgSt, pgIdx, pgPages, pgRun, pgFirst,
          pgClock, pgCand, exportData, mounted, dom, jobs, today,
          fnIn, fnPc, fnOut, rkCandidates, rkPc, rkRows,
          tpIn, tpPc, tpBlocks,
          anJob, anCandidates, isProcessing, analysisProgress, anTask,
          anAlert, anNextId, anReloads,
          retries, delay, rtPc, rtI, lastError, rtCalls, rtWaits, rtOut,
          uploadQueue, upTasks, upParses, upAdded, upNextId>>

Names == {"Ann", "Bo"}
Types == {"report", "guide"}
NoData == [name |-> "", type |-> "null"]
NoElement == [data |-> NoData, heights |-> <<>>, attached |-> FALSE]

\* the pagination loop is not observed on its own
PgOff ==
    /\ pgHeights = <<>>
    /\ pgBudget = 0
    /\ pgPc = "off"
    /\ pgSt = LoopInit
    /\ pgIdx = 0
    /\ pgPages = <<>>
    /\ pgRun = 1
    /\ pgFirst = [pages |-> <<>>, clock |-> 0, cand |-> ""]
    /\ pgClock = 1
    /\ pgCand = "Ann"

\* no file name is being built
FnOff ==
    /\ fnIn = [type |-> "null", language |-> "zh", title |-> "", name |-> "",
               analysis |-> [has |-> FALSE, hasScore |-> FALSE, totalScore |-> 0]]
    /\ fnPc = "off"
    /\ fnOut = ""

\* the dashboard is not shown
RkOff ==
    /\ rkCandidates = <<>>
    /\ rkPc = "off"
    /\ rkRows = <<>>

\* no export container is being rendered on its own
TpOff ==
    /\ tpIn = [type |-> "null", guide |-> <<>>, risks |-> 0, metrics |-> <<>>,
               detailed |-> FALSE]
    /\ tpPc = "off"
    /\ tpBlocks = <<>>

\* the candidate list is empty and no analysis runs
AnOff ==
    /\ anJob = [description |-> "", weights |-> <<>>]
    /\ anCandidates = <<>>
    /\ isProcessing = FALSE
    /\ analysisProgress = [current |-> 0, total |-> 0]
    /\ anTask = [pc |-> "off", queue |-> <<>>, i |-> 0]
    /\ anAlert = "none"
    /\ anNextId = 1
    /\ anReloads = 0

\* withRetry is not called
RtOff ==
    /\ retries = 0
    /\ delay = 0
    /\ rtPc = "off"
    /\ rtI = 0
    /\ lastError = "undefined"
    /\ rtCalls = <<>>
    /\ rtWaits = <<>>
    /\ rtOut = [kind |-> "none", val |-> ""]

\* nothing is uploaded
UpOff ==
    /\ uploadQueue = <<>>
    /\ upTasks = <<>>
    /\ upParses = <<>>
    /\ upAdded = <<>>
    /\ upNextId = 1

RestOff == TpOff /\ AnOff /\ RtOff /\ UpOff

\* ------------------------------------------------ PagSpec: the loop alone
PgIdle ==
    /\ exportData = NoData
    /\ mounted = 0
    /\ dom = [e \in 1..MaxJobs |-> NoElement]
    /\ jobs = <<>>
    /\ today = 1

PagInit ==
    /\ pgHeights \in SeqsUpTo(Heights, MaxLen)
    /\ pgBudget \in Budgets
    /\ pgPc = "idle"
    /\ pgSt = LoopInit
    /\ pgIdx = 0
    /\ pgPages = <<>>
    /\ pgRun = 1
    /\ pgFirst = [pages |-> <<>>, clock |-> 0, cand |-> ""]
    /\ pgClock = 1
    /\ pgCand \in Names
    /\ PgIdle
    /\ FnOff
    /\ RkOff
    /\ RestOff

\* mutant: currentHeight is kept in a variable that outlives the run
PgBeginStale ==
    /\ pgPc = "idle"
    /\ pgPc' = "loop"
    /\ pgSt' = [pages |-> <<>>, currentPage |-> <<>>,
                currentHeight |-> pgSt.currentHeight]
    /\ pgIdx' = 0
    /\ UNCHANGED <<pgHeights, pgBudget, pgPages, pgRun, pgFirst, pgClock, pgCand>>
    /\ UNCHANGED nonPagVars

\* const pages = []; let currentPage = []; let currentHeight = 0
PgBegin ==
    /\ pgPc = "idle"
    /\ pgPc' = "loop"
    /\ pgSt' = LoopInit
    /\ pgIdx' = 0
    /\ UNCHANGED <<pgHeights, pgBudget, pgPages, pgRun, pgFirst, pgClock, pgCand>>
    /\ UNCHANGED nonPagVars

\* one iteration of the for loop over children
PgLoopStep ==
    /\ pgPc = "loop"
    /\ pgIdx < Len(pgHeights)
    /\ pgSt' = PageStep(pgSt, pgIdx + 1, pgHeights[pgIdx + 1], pgBudget)
    /\ pgIdx' = pgIdx + 1
    /\ UNCHANGED <<pgHeights, pgBudget, pgPc, pgPages, pgRun, pgFirst, pgClock, pgCand>>
    /\ UNCHANGED nonPagVars

\* the statement after the loop
PgFlush ==
    /\ pgPc = "loop"
    /\ pgIdx = Len(pgHeights)
    /\ pgPc' = "done"
    /\ pgPages' = PageFlush(pgSt)
    /\ pgFirst' = IF pgRun = 1
                THEN [pages |-> PageFlush(pgSt), clock |-> pgClock, cand |-> pgCand]
                ELSE pgFirst
    /\ UNCHANGED <<pgHeights, pgBudget, pgSt, pgIdx, pgRun, pgClock, pgCand>>
    /\ UNCHANGED nonPagVars

\* the same children and budget are paginated again, by a later request:
\* another candidate, another time of day
PgAgain ==
    /\ pgPc = "done"
    /\ pgRun = 1
    /\ pgRun' = 2
    /\ pgPc' = "idle"
    /\ pgClock' \in 1..MaxClock
    /\ pgCand' \in Names
    /\ UNCHANGED <<pgHeights, pgBudget, pgSt, pgIdx, pgPages, pgFirst>>
    /\ UNCHANGED nonPagVars

PagNext == PgBegin \/ PgLoopStep \/ PgFlush \/ PgAgain

PagSpec == PagInit /\ [][PagNext]_vars


\* --------------------------------------------- Spec: the export pipeline
\* what React renders for a request: the measured heights of the export
\* container's children (header block, info block, then the content blocks).
\* A report fills two pages, the first one exactly and the second one with
\* an oversized block; a guide fills one page exactly
Layout(data) ==
    IF data.type = "report" THEN <<152, 100, 300>> ELSE <<100, 152>>

\* rendered width of the attached container (w-[210mm]), at 1 px per mm
AttachedWidthPx == PAGE_WIDTH_MM

\* a string handed to pdf.text, by the parts its template is built from
Text(label, name, date, page, of) ==
    [label |-> label, name |-> name, date |-> date, page |-> page, of |-> of]

\* pdf.text("AIHR Studio Evaluation", 10, 12)
HeaderLeft(data) == Text("AIHR Studio Evaluation", "", 0, 0, 0)

\* mutant: the right header names the candidate, as before the encoding fix
HeaderRightWithName(data, date) == Text("Report | ", data.name, date, 0, 0)

\* `Report | ${new Date().toLocaleDateString('en-CA')}`
HeaderRight(data, date) == Text("Report | ", "", date, 0, 0)

\* mutant: the footer prints the loop index itself
PageNumStrZeroBased(i, n) == Text("Page of", "", 0, i, n)

\* `Page ${i + 1} of ${pages.length}`
PageNumStr(i, n) == Text("Page of", "", 0, i + 1, n)

\* new jsPDF('p', 'mm', 'a4') starts with one blank physical page; day
\* records the calendar day on which the page's chrome was drawn
BlankPage == [images |-> <<>>, texts |-> <<>>, day |-> 0]

NewJob(data) ==
    [pc |-> "scheduled", data |-> data, container |-> 0,
     heights |-> <<>>, budget |-> 0, pages |-> <<>>, i |-> 0,
     temp |-> <<>>, inBody |-> FALSE, pdf |-> <<>>, rasterCalls |-> 0,
     saved |-> FALSE, fileName |-> NoData, failedAt |-> -1,
     alerted |-> FALSE, log |-> <<>>, rendered |-> NoData, tempWidth |-> 0]

\* addLog(message, type), by the type and the name put in the message
AddLog(job, type, name) ==
    [job EXCEPT !.log = Append(@, [type |-> type, name |-> name])]

\* mutant: the top margin of every clone of the page is reset
FillTempResetAll(pageNodes) ==
    [n \in 1..Len(pageNodes) |-> [block |-> pageNodes[n], marginTop0 |-> TRUE]]

\* tempContainer.innerHTML = ''; then one deep clone per node of the page,
\* the clone of pageNodes[0] with marginTop = '0'
FillTemp(pageNodes) ==
    [n \in 1..Len(pageNodes) |->
        [block |-> pageNodes[n], marginTop0 |-> (pageNodes[n] = pageNodes[1])]]

\* what getElementHeight measures for each child of the container: the
\* rendered heights while the container is attached, 0 once it is detached
Measure(el) ==
    IF el.attached THEN el.heights
    ELSE [k \in 1..Len(el.heights) |-> GetElementHeight(0, 0, 0)]

OffsetWidth(el) == IF el.attached THEN AttachedWidthPx ELSE 0

\* mutant: a failed export is scheduled again instead of being given up
CatchRetry(job) ==
    AddLog([job EXCEPT !.pc = "scheduled", !.alerted = TRUE], "error", job.data.name)

\* catch (e) { alert(...); addLog(`PDF export failed for ${name}`, 'error') }
Catch(job) ==
    AddLog([job EXCEPT !.pc = "failed", !.alerted = TRUE], "error", job.data.name)

\* lines 540-550: removeChild(tempContainer), pdf.save(...), addLog success;
\* a throwing pdf.save lands in the catch block
Finish(job, saveOk) ==
    LET cleaned == [job EXCEPT !.inBody = FALSE] IN
    IF saveOk
    THEN AddLog([cleaned EXCEPT !.pc = "done", !.saved = TRUE,
                                !.fileName = job.data],
                "success", job.data.name)
    ELSE Catch(cleaned)

\* mutant: the staging container is filled without being cleared first
StartPageNoClear(job, i) ==
    [job EXCEPT !.pc = "raster", !.i = i,
                !.temp = job.temp \o FillTemp(job.pages[i + 1]),
                !.rasterCalls = @ + 1]

\* one turn of the render loop up to its await: fill the staging container
\* with page i and call html2canvas
StartPage(job, i) ==
    [job EXCEPT !.pc = "raster", !.i = i,
                !.temp = FillTemp(job.pages[i + 1]),
                !.rasterCalls = @ + 1]

\* finally { setExportData(null) } and the render that follows it: the
\* export container is unmounted
ResetExport ==
    /\ exportData' = NoData
    /\ mounted' = 0
    /\ dom' = IF mounted = 0 THEN dom
              ELSE [dom EXCEPT ![mounted].attached = FALSE]

Running(job) == job.pc \in {"scheduled", "waiting", "raster"}
Over(job) == job.pc \in {"done", "failed"}

Init ==
    /\ exportData = NoData
    /\ mounted = 0
    /\ dom = [e \in 1..MaxJobs |-> NoElement]
    /\ jobs = <<>>
    /\ today = 1
    /\ pgHeights = <<>>
    /\ pgBudget = 0
    /\ pgPc = "off"
    /\ pgSt = LoopInit
    /\ pgIdx = 0
    /\ pgPages = <<>>
    /\ pgRun = 1
    /\ pgFirst = [pages |-> <<>>, clock |-> 0, cand |-> ""]
    /\ pgClock = 1
    /\ pgCand = "Ann"
    /\ FnOff
    /\ RkOff
    /\ RestOff

\* triggerPDFExport(candidate, type): setExportData, the render of the PDF
\* template into the export container, and the export effect, which
\* schedules generate() when exportData and the container are set
TriggerPDFExport(name, type) ==
    /\ Len(jobs) < MaxJobs
    /\ LET data == [name |-> name, type |-> type]
           el == IF mounted = 0 THEN Len(jobs) + 1 ELSE mounted
       IN /\ exportData' = data
          /\ mounted' = el
          /\ dom' = [dom EXCEPT ![el] = [data |-> data,
                                         heights |-> Layout(data),
                                         attached |-> TRUE]]
          /\ jobs' = Append(jobs, NewJob(data))
    /\ UNCHANGED today
    /\ UNCHANGED nonAppVars

\* setTimeout(generate, 100) fires: generate reads pdfExportRef.current and
\* suspends on the 300 ms timer
GenerateStart(j) ==
    /\ jobs[j].pc = "scheduled"
    /\ \A k \in 1..(j - 1) : jobs[k].pc # "scheduled"
    /\ jobs' = [jobs EXCEPT ![j].pc = "waiting", ![j].container = mounted]
    /\ UNCHANGED <<exportData, mounted, dom, today>>
    /\ UNCHANGED nonAppVars

\* the 300 ms timer fires: lines 416-501 up to the first await html2canvas,
\* or up to the end of generate when the partition has no page or the
\* container reference is null
GenerateMeasure(j) ==
    /\ jobs[j].pc = "waiting"
    /\ \A k \in 1..(j - 1) : jobs[k].pc \notin {"scheduled", "waiting"}
    /\ LET job == [AddLog(jobs[j], "process", jobs[j].data.name)
                      EXCEPT !.pdf = <<BlankPage>>]
       IN IF job.container = 0
          THEN \* container.offsetWidth throws on null
               /\ jobs' = [jobs EXCEPT ![j] = Catch(job)]
               /\ ResetExport
          ELSE LET el == dom[job.container]
                   heights == Measure(el)
                   budget == MaxContentHeightPx(OffsetWidth(el))
                   paged == [job EXCEPT !.heights = heights,
                                        !.budget = budget,
                                        !.rendered = el.data,
                                        !.tempWidth = OffsetWidth(el),
                                        !.pages = Paginate(heights, budget),
                                        !.inBody = TRUE]
               IN IF Len(paged.pages) = 0
                  THEN /\ \E saveOk \in BOOLEAN :
                              jobs' = [jobs EXCEPT ![j] = Finish(paged, saveOk)]
                       /\ ResetExport
                  ELSE /\ jobs' = [jobs EXCEPT ![j] = StartPage(paged, 0)]
                       /\ UNCHANGED <<exportData, mounted, dom>>
    /\ UNCHANGED today
    /\ UNCHANGED nonAppVars

\* pdf.internal.pageSize.getWidth() of an a4 portrait document, in mm
DocWidth == PAGE_WIDTH_MM

\* pdf.internal.pageSize.getHeight() of an a4 portrait document, in mm
DocHeight == PAGE_HEIGHT_MM

\* pdf.line(10, docHeight - 15, docWidth - 10, docHeight - 15)
FooterRuleY == DocHeight - 15

\* html2canvas(tempContainer, { scale: 2 }): the staging container has the
\* width the export container measured, and the height of its content, the
\* clones laid out one under the other with their rendered heights
Canvas(job) ==
    [width |-> 2 * job.tempWidth,
     height |-> 2 * SumHeights([n \in 1..Len(job.temp) |-> job.temp[n].block],
                               Layout(job.rendered))]

\* what a division by zero gives: Infinity or NaN, no finite height
NotFinite == 1000000

\* mutant: the canvas height is taken as the height in mm
ImgHeightUnscaled(canvas) == canvas.height

\* imgHeight = (canvas.height * docWidth) / canvas.width
ImgHeight(canvas) ==
    IF canvas.width = 0 THEN NotFinite
    ELSE (canvas.height * DocWidth) \div canvas.width

\* mutant: a physical page is added before every page, the first included
AddPageAlways(job) == [job EXCEPT !.pdf = Append(@, BlankPage)]

\* if (i > 0) pdf.addPage()
AddPage(job) ==
    IF job.i > 0 THEN [job EXCEPT !.pdf = Append(@, BlankPage)] ELSE job

\* mutant: the loop only places the image; the chrome is left to a pass
\* after the loop
StampDeferred(job, date) ==
    LET i == job.i
        doc == AddPage(job).pdf
        last == Len(doc)
    IN [job EXCEPT !.pdf =
           [doc EXCEPT ![last] =
               [images |-> Append(doc[last].images,
                                  [content |-> job.temp, x |-> 0,
                                   y |-> MARGIN_TOP_MM, w |-> DocWidth,
                                   h |-> ImgHeight(Canvas(job))]),
                texts |-> doc[last].texts,
                day |-> date]]]

\* lines 503-537 for page i: addPage, addImage and the chrome of the page
Stamp(job, date) ==
    LET i == job.i
        doc == AddPage(job).pdf
        last == Len(doc)
    IN [job EXCEPT !.pdf =
           [doc EXCEPT ![last] =
               [images |-> Append(doc[last].images,
                                  [content |-> job.temp, x |-> 0,
                                   y |-> MARGIN_TOP_MM, w |-> DocWidth,
                                   h |-> ImgHeight(Canvas(job))]),
                texts |-> doc[last].texts \o
                          << HeaderLeft(job.data),
                             HeaderRight(job.data, date),
                             PageNumStr(i, Len(job.pages)) >>,
                day |-> date]]]

\* mutant: a render failure is swallowed and the loop goes on to the next page
RasterRejectContinue(j) ==
    /\ jobs[j].pc = "raster"
    /\ LET job == [jobs[j] EXCEPT !.failedAt = jobs[j].i]
           next == job.i + 1
       IN IF next < Len(job.pages)
          THEN /\ jobs' = [jobs EXCEPT ![j] = StartPage(job, next)]
               /\ UNCHANGED <<exportData, mounted, dom>>
          ELSE /\ jobs' = [jobs EXCEPT ![j] = Finish(job, TRUE)]
               /\ ResetExport
    /\ UNCHANGED today
    /\ UNCHANGED nonAppVars

\* html2canvas rejects for page i: catch, then finally
RasterReject(j) ==
    /\ jobs[j].pc = "raster"
    /\ jobs' = [jobs EXCEPT ![j] = Catch([jobs[j] EXCEPT !.failedAt = jobs[j].i])]
    /\ ResetExport
    /\ UNCHANGED today
    /\ UNCHANGED nonAppVars

\* html2canvas resolves for page i: the page is placed and stamped, then the
\* loop either suspends on the next page or leaves and saves the file;
\* pdf.addImage and pdf.save may throw. date is what new Date() returns when
\* the page is stamped: the clock never runs backwards
RasterResolve(j, date, addImageOk, saveOk) ==
    /\ jobs[j].pc = "raster"
    /\ date >= today
    \* an input the step does not read is fixed, so that each step is taken once
    /\ ~addImageOk => date = today
    /\ (~addImageOk \/ jobs[j].i + 1 < Len(jobs[j].pages)) => saveOk
    /\ IF ~addImageOk
       THEN \* the page was added before addImage threw
            /\ jobs' = [jobs EXCEPT ![j] = Catch(AddPage(jobs[j]))]
            /\ ResetExport
            /\ UNCHANGED today
       ELSE LET job == Stamp(jobs[j], date)
                next == job.i + 1
            IN /\ today' = date
               /\ IF next < Len(job.pages)
                  THEN /\ jobs' = [jobs EXCEPT ![j] = StartPage(job, next)]
                       /\ UNCHANGED <<exportData, mounted, dom>>
                  ELSE /\ jobs' = [jobs EXCEPT ![j] = Finish(job, saveOk)]
                       /\ ResetExport
    /\ UNCHANGED nonAppVars

Next ==
    \/ \E name \in Names, type \in Types : TriggerPDFExport(name, type)
    \/ \E j \in 1..Len(jobs) : GenerateStart(j)
    \/ \E j \in 1..Len(jobs) : GenerateMeasure(j)
    \/ \E j \in 1..Len(jobs) : RasterReject(j)
    \/ \E j \in 1..Len(jobs), date \in 1..MaxDay,
          addImageOk \in BOOLEAN, saveOk \in BOOLEAN :
           RasterResolve(j, date, addImageOk, saveOk)

Spec == Init /\ [][Next]_vars

\* the two timers of a task fire, and a pending html2canvas promise settles
TimerFires == \E j \in 1..Len(jobs) : GenerateStart(j) \/ GenerateMeasure(j)

Html2canvasSettles ==
    \E j \in 1..Len(jobs) :
        \/ RasterReject(j)
        \/ \E date \in 1..MaxDay, addImageOk \in BOOLEAN, saveOk \in BOOLEAN :
               RasterResolve(j, date, addImageOk, saveOk)

FairSpec == Spec /\ WF_vars(TimerFires) /\ WF_vars(Html2canvasSettles)

\* ------------------------------------------- NameSpec: the file name
Languages == {"zh", "en"}
Titles == {"", "Dev"}
Scores == {0, 60, 85}

\* candidate.analysis: absent, present without a total score, or scored
Analyses ==
    { [has |-> FALSE, hasScore |-> FALSE, totalScore |-> 0],
      [has |-> TRUE, hasScore |-> FALSE, totalScore |-> 0] }
    \cup { [has |-> TRUE, hasScore |-> TRUE, totalScore |-> sc] : sc \in Scores }

\* typeStr; "JianLiFenXi" and "MianShiZhiNan" stand for the two Chinese
\* labels of the source, which a string of this language cannot hold
TypeStr(type, language) ==
    IF type = "report"
    THEN (IF language = "zh" THEN "JianLiFenXi" ELSE "Analysis")
    ELSE (IF language = "zh" THEN "MianShiZhiNan" ELSE "InterviewGuide")

\* jobConfig.title || 'Job'
JobStr(title) == IF title = "" THEN "Job" ELSE title

\* mutant: the empty name is used as it is
NameStrNoFallback(name) == name

\* exportData.candidate.name || 'Candidate'
NameStr(name) == IF name = "" THEN "Candidate" ELSE name

\* exportData.candidate.analysis?.totalScore || '0', as the template prints it
ScoreStr(analysis) ==
    IF analysis.has /\ analysis.hasScore /\ analysis.totalScore # 0
    THEN ToString(analysis.totalScore)
    ELSE "0"

\* `${typeStr}_${jobStr}_${nameStr}_${scoreStr}.pdf`
FileName(in) ==
    TypeStr(in.type, in.language) \o "_" \o JobStr(in.title) \o "_"
        \o NameStr(in.name) \o "_" \o ScoreStr(in.analysis) \o ".pdf"

NameInit ==
    /\ fnIn \in [type : Types, language : Languages, title : Titles,
                 name : Names \cup {""}, analysis : Analyses]
    /\ fnPc = "idle"
    /\ fnOut = ""
    /\ PgIdle
    /\ PgOff
    /\ RkOff
    /\ RestOff

\* pdf.save(fileName)
FnSave ==
    /\ fnPc = "idle"
    /\ fnPc' = "saved"
    /\ fnOut' = FileName(fnIn)
    /\ UNCHANGED fnIn
    /\ UNCHANGED <<pgVars, appVars, rkVars, restVars>>

NameNext == FnSave

NameSpec == NameInit /\ [][NameNext]_vars

\* ------------------------------------------ RankSpec: the dashboard list
Statuses == {"pending", "analyzing", "completed", "failed"}

\* c.analysis?.totalScore || 0
TotalScore(c) ==
    IF c.analysis.has /\ c.analysis.hasScore THEN c.analysis.totalScore ELSE 0

\* candidates.filter(c => c.status === 'completed')
CompletedOf(cs) == SelectSeq(cs, LAMBDA c : c.status = "completed")

\* mutant: the comparator is a - b
RECURSIVE InsertAscending(_, _)
InsertAscending(sorted, c) ==
    IF sorted = <<>> THEN <<c>>
    ELSE IF TotalScore(Head(sorted)) <= TotalScore(c)
         THEN <<Head(sorted)>> \o InsertAscending(Tail(sorted), c)
         ELSE <<c>> \o sorted

\* one insertion of the stable sort under the comparator
\* (a, b) => score(b) - score(a): c goes behind every element that does not
\* compare greater than it
RECURSIVE Insert(_, _)
Insert(sorted, c) ==
    IF sorted = <<>> THEN <<c>>
    ELSE IF TotalScore(c) - TotalScore(Head(sorted)) <= 0
         THEN <<Head(sorted)>> \o Insert(Tail(sorted), c)
         ELSE <<c>> \o sorted

\* [...completed].sort(comparator)
RECURSIVE SortFrom(_, _)
SortFrom(sorted, rest) ==
    IF rest = <<>> THEN sorted
    ELSE SortFrom(Insert(sorted, Head(rest)), Tail(rest))

Sorted(cs) == SortFrom(<<>>, CompletedOf(cs))

\* sorted.map((c, idx) => row with #{idx + 1})
Rows(cs) ==
    LET sorted == Sorted(cs) IN
    [k \in 1..Len(sorted) |->
        [rank |-> (k - 1) + 1, id |-> sorted[k].id, score |-> TotalScore(sorted[k])]]

RankInit ==
    /\ \E n \in 0..MaxCands :
           \E st \in [1..n -> Statuses], an \in [1..n -> Analyses] :
               rkCandidates = [k \in 1..n |->
                                  [id |-> k, status |-> st[k], analysis |-> an[k]]]
    /\ rkPc = "idle"
    /\ rkRows = <<>>
    /\ PgIdle
    /\ PgOff
    /\ FnOff
    /\ RestOff

RenderDashboard ==
    /\ rkPc = "idle"
    /\ rkPc' = "rendered"
    /\ rkRows' = Rows(rkCandidates)
    /\ UNCHANGED rkCandidates
    /\ UNCHANGED <<pgVars, appVars, fnVars, restVars>>

RankNext == RenderDashboard

RankSpec == RankInit /\ [][RankNext]_vars

\* --------------------------------- TplSpec: the rendered export container
\* a string is a sequence of one-character strings; the characters cover
\* every marker the line renderer tests, a letter and the line break
Chars == {"#", "-", "*", "1", ".", " ", "a", "\n"}

\* the guide "### Q1\nText\n\n- tip" and other guides longer than MaxText
GuideExample ==
    <<"#", "#", "#", " ", "Q", "1", "\n", "T", "e", "x", "t", "\n", "\n",
      "-", " ", "t", "i", "p">>
GuideSamples ==
    { GuideExample,
      <<"#", "#", "#", " ", "a">>,
      <<"#", "#", "#", "#", " ", "a">>,
      <<" ", " ", "#", "#", " ", "a", " ">>,
      <<"1", "1", ".", " ", "a", "\n", "1", ".", "a">>,
      <<"a", "\n", "-", "-", "-", "\n", "*", "*", "*", "\n">> }
GuideTexts == (SeqsUpTo(Chars, MaxText) \ {<<>>}) \cup GuideSamples

\* String.prototype.split('\n'): the pieces between the line breaks
RECURSIVE SplitFrom(_, _, _)
SplitFrom(rest, cur, acc) ==
    IF rest = <<>> THEN Append(acc, cur)
    ELSE IF Head(rest) = "\n"
         THEN SplitFrom(Tail(rest), <<>>, Append(acc, cur))
         ELSE SplitFrom(Tail(rest), Append(cur, Head(rest)), acc)

Split(text) == SplitFrom(text, <<>>, <<>>)

\* white space, as String.prototype.trim and the regular expression \s see it
IsSpace(c) == c \in {" ", "\n"}
IsDigit(c) == c \in {"1"}

RECURSIVE TrimStart(_)
TrimStart(line) ==
    IF line # <<>> /\ IsSpace(Head(line)) THEN TrimStart(Tail(line)) ELSE line

RECURSIVE TrimEnd(_)
TrimEnd(line) ==
    IF line # <<>> /\ IsSpace(line[Len(line)])
    THEN TrimEnd(SubSeq(line, 1, Len(line) - 1))
    ELSE line

Trim(line) == TrimEnd(TrimStart(line))

StartsWith(line, prefix) ==
    Len(line) >= Len(prefix) /\ SubSeq(line, 1, Len(prefix)) = prefix

\* /^\d+\.\s/.test(line)
NumberedTest(line) ==
    \E n \in 1..Len(line) :
        /\ \A k \in 1..n : IsDigit(line[k])
        /\ Len(line) >= n + 2
        /\ line[n + 1] = "."
        /\ IsSpace(line[n + 2])

\* the element a line renders to, by the first test that matches
LineElement(trimmed) ==
    IF StartsWith(trimmed, <<"#", "#", "#", " ">>) THEN "h3"
    ELSE IF StartsWith(trimmed, <<"#", "#", " ">>) THEN "h2"
    ELSE IF trimmed = <<"-", "-", "-">> \/ trimmed = <<"*", "*", "*">> THEN "hr"
    ELSE IF StartsWith(trimmed, <<"-", " ">>) \/ StartsWith(trimmed, <<"*", " ">>)
         THEN "bullet"
    ELSE IF NumberedTest(trimmed) THEN "numbered"
    ELSE IF trimmed = <<>> THEN "spacer"
    ELSE "p"

\* mutant: the line is tested as it is written, without trimming
MarkdownLineRendererUntrimmed(line) == LineElement(line)

\* MarkdownLineRenderer({ line }): const trimmed = line.trim(), then the tests
MarkdownLineRenderer(line) == LineElement(Trim(line))

\* one child of the export container: what it shows, which item of its
\* kind it shows, and the element or variant it renders
Block(kind, idx, el) == [kind |-> kind, idx |-> idx, el |-> el]

\* mutant: a metric with detail renders its card and its brief as two blocks
RECURSIVE MetricBlocksSplit(_)
MetricBlocksSplit(metrics) ==
    IF metrics = <<>> THEN <<>>
    ELSE LET n == Len(metrics)
             rest == MetricBlocksSplit(SubSeq(metrics, 1, n - 1))
         IN IF metrics[n]
            THEN rest \o <<Block("metric", n, "rich"), Block("metric", n, "brief")>>
            ELSE Append(rest, Block("metric", n, "compact"))

\* metrics.map(...): one div per metric, rich when detailedMetrics has the
\* metric's id and compact otherwise
MetricBlocks(metrics) ==
    [k \in 1..Len(metrics) |->
        Block("metric", k, IF metrics[k] THEN "rich" ELSE "compact")]

\* the children of the export container for a completed candidate, whose
\* analysis is present: renderPDFTemplate
RenderPDFTemplate(in) ==
    LET lines == Split(in.guide) IN
       <<Block("header", 1, ""), Block("info", 1, "")>>
    \o (IF in.type = "report"
        THEN <<Block("summaryTitle", 1, ""), Block("summary", 1, "")>>
        ELSE <<>>)
    \o (IF in.risks > 0
        THEN <<Block("risksTitle", 1, "")>>
             \o [k \in 1..in.risks |-> Block("risk", k, "")]
             \o <<Block("risksSpacer", 1, "")>>
        ELSE <<>>)
    \o (IF in.type = "report"
        THEN <<Block("metricsTitle", 1, "")>>
             \o (IF ~in.detailed THEN <<Block("metricsHead", 1, "")>> ELSE <<>>)
             \o MetricBlocks(in.metrics)
        ELSE <<>>)
    \o (IF in.type = "guide" /\ in.guide # <<>>
        THEN [k \in 1..Len(lines) |-> Block("line", k, MarkdownLineRenderer(lines[k]))]
             \o <<Block("bottomSpacer", 1, "")>>
        ELSE <<>>)

\* the requests the modal can make: a guide export needs a non-empty guide
TplInputs ==
    { [type |-> "guide", guide |-> g, risks |-> r, metrics |-> <<>>,
       detailed |-> FALSE] : g \in GuideTexts, r \in 0..1 }
    \cup
    { in \in [type : {"report"}, guide : {<<>>, GuideExample},
              risks : 0..MaxItems, metrics : SeqsUpTo(BOOLEAN, MaxItems),
              detailed : BOOLEAN] :
          \A k \in 1..Len(in.metrics) : in.metrics[k] => in.detailed }

TplInit ==
    /\ tpIn \in TplInputs
    /\ tpPc = "idle"
    /\ tpBlocks = <<>>
    /\ PgIdle
    /\ PgOff
    /\ FnOff
    /\ RkOff
    /\ AnOff
    /\ RtOff
    /\ UpOff

\* setExportData(...) and the render that follows it
RenderTemplate ==
    /\ tpPc = "idle"
    /\ tpPc' = "rendered"
    /\ tpBlocks' = RenderPDFTemplate(tpIn)
    /\ UNCHANGED tpIn
    /\ UNCHANGED <<pgVars, appVars, fnVars, rkVars, anVars, rtVars, upVars>>

TplNext == RenderTemplate

TplSpec == TplInit /\ [][TplNext]_vars

\* ------------------------------------ BatchSpec: the analysis of the queue
\* metric weight lists: parseInt(value) || 0 per metric, so any integers
WeightLists == {<<>>, <<100>>, <<60, 40>>, <<60, 30>>, <<120, -20>>}

\* metrics.reduce((acc, m) => acc + m.weight, 0)
RECURSIVE TotalWeight(_)
TotalWeight(weights) ==
    IF weights = <<>> THEN 0
    ELSE TotalWeight(SubSeq(weights, 1, Len(weights) - 1)) + weights[Len(weights)]

\* candidates.filter(c => c.status === 'pending' || c.status === 'failed'),
\* by candidate id
QueueOf(cands) ==
    LET q == SelectSeq(cands, LAMBDA c : c.status \in {"pending", "failed"})
    IN [k \in 1..Len(q) |-> q[k].id]

\* prev.map(c => c.id === id ? { ...c, status } : c)
SetStatus(cands, id, status) ==
    [k \in 1..Len(cands) |->
        IF cands[k].id = id THEN [cands[k] EXCEPT !.status = status] ELSE cands[k]]

NoTask == [pc |-> "none", queue |-> <<>>, i |-> 0]

\* mutant: the weight check is skipped
GuardNoWeight(job, cands) ==
    IF job.description = "" THEN "jd"
    ELSE IF QueueOf(cands) = <<>> THEN "empty"
    ELSE "started"

\* the three early returns of handleStartAnalysis, by the alert they show
Guard(job, cands) ==
    IF job.description = "" THEN "jd"
    ELSE IF TotalWeight(job.weights) # 100 THEN "weight"
    ELSE IF QueueOf(cands) = <<>> THEN "empty"
    ELSE "started"

BatchInit ==
    /\ anJob \in [description : {"", "JD"}, weights : WeightLists]
    /\ anCandidates = <<>>
    /\ isProcessing = FALSE
    /\ analysisProgress = [current |-> 0, total |-> 0]
    /\ anTask = NoTask
    /\ anAlert = "none"
    /\ anNextId = 1
    /\ anReloads = 0
    /\ PgIdle
    /\ PgOff
    /\ FnOff
    /\ RkOff
    /\ TpOff
    /\ RtOff
    /\ UpOff

\* handleAddCandidate: a parsed resume joins the list as 'pending'
HandleAddCandidate ==
    /\ anNextId <= MaxUploads
    /\ anCandidates' = Append(anCandidates, [id |-> anNextId, status |-> "pending"])
    /\ anNextId' = anNextId + 1
    /\ UNCHANGED <<anJob, isProcessing, analysisProgress, anTask, anAlert, anReloads>>
    /\ UNCHANGED <<pgVars, appVars, fnVars, rkVars, tpVars, rtVars, upVars>>

\* the "clear" button of the resume list: setCandidates([])
ClearCandidates ==
    /\ anCandidates # <<>>
    /\ anCandidates' = <<>>
    /\ UNCHANGED <<anJob, isProcessing, analysisProgress, anTask, anAlert,
                   anNextId, anReloads>>
    /\ UNCHANGED <<pgVars, appVars, fnVars, rkVars, tpVars, rtVars, upVars>>

\* a click on the start button, which is disabled while isProcessing: the
\* guard, then lines 594-608 up to the first await analyzeResume
HandleStartAnalysis ==
    /\ ~isProcessing
    /\ anAlert' = Guard(anJob, anCandidates)
    /\ IF anAlert' = "started"
       THEN LET queue == QueueOf(anCandidates) IN
            /\ isProcessing' = TRUE
            /\ analysisProgress' = [current |-> 0, total |-> Len(queue)]
            /\ anCandidates' = SetStatus(anCandidates, queue[1], "analyzing")
            /\ anTask' = [pc |-> "awaiting", queue |-> queue, i |-> 1]
       ELSE UNCHANGED <<isProcessing, analysisProgress, anCandidates, anTask>>
    /\ UNCHANGED <<anJob, anNextId, anReloads>>
    /\ UNCHANGED <<pgVars, appVars, fnVars, rkVars, tpVars, rtVars, upVars>>

Min(a, b) == IF a <= b THEN a ELSE b

\* analyzeResume settles for queue[i]: the candidate becomes 'completed' or
\* 'failed', the progress counter advances, and the loop either marks the
\* next candidate and awaits again or ends the batch
AnalyzeSettles(ok) ==
    /\ anTask.pc = "awaiting"
    /\ LET i == anTask.i
           queue == anTask.queue
           settled == SetStatus(anCandidates, queue[i],
                                IF ok THEN "completed" ELSE "failed")
       IN /\ analysisProgress' =
                 [analysisProgress EXCEPT
                     !.current = Min(@ + 1, analysisProgress.total)]
          /\ IF i < Len(queue)
             THEN /\ anCandidates' = SetStatus(settled, queue[i + 1], "analyzing")
                  /\ anTask' = [anTask EXCEPT !.i = i + 1]
                  /\ UNCHANGED isProcessing
             ELSE /\ anCandidates' = settled
                  /\ anTask' = NoTask
                  /\ isProcessing' = FALSE
    /\ UNCHANGED <<anJob, anAlert, anNextId, anReloads>>
    /\ UNCHANGED <<pgVars, appVars, fnVars, rkVars, tpVars, rtVars, upVars>>

\* the page is loaded again: the persist effect has written every
\* candidates value to localStorage, the load effect reads it back; all
\* other state starts from its useState default and the running task is gone
Reload ==
    /\ anReloads < MaxReloads
    /\ anReloads' = anReloads + 1
    /\ isProcessing' = FALSE
    /\ analysisProgress' = [current |-> 0, total |-> 0]
    /\ anTask' = NoTask
    /\ anAlert' = "none"
    /\ UNCHANGED <<anJob, anCandidates, anNextId>>
    /\ UNCHANGED <<pgVars, appVars, fnVars, rkVars, tpVars, rtVars, upVars>>

BatchNext ==
    \/ HandleAddCandidate
    \/ ClearCandidates
    \/ HandleStartAnalysis
    \/ \E ok \in BOOLEAN : AnalyzeSettles(ok)
    \/ Reload

BatchSpec == BatchInit /\ [][BatchNext]_vars

\* ------------------------------------------ RetrySpec: one call of withRetry
\* the outcomes fn can have: the errors it rejects with, the values it
\* resolves with
Errors == {"timeout", "quota"}
Values == {"json"}
Delays == {1, 1000}

BackoffLinear(d, i) == d * (i + 1)

\* delay * Math.pow(2, i)
Backoff(d, i) == d * 2 ^ i

RetryInit ==
    /\ PgIdle
    /\ PgOff
    /\ FnOff
    /\ RkOff
    /\ TpOff
    /\ AnOff
    /\ UpOff
    /\ retries \in 0..MaxRetries
    /\ delay \in Delays
    /\ rtPc = "idle"
    /\ rtI = 0
    /\ lastError = "undefined"
    /\ rtCalls = <<>>
    /\ rtWaits = <<>>
    /\ rtOut = [kind |-> "none", val |-> ""]

\* the call: i = 0, and either the first fn() starts or the loop is skipped
\* and the undefined lastError is thrown
WithRetry ==
    /\ rtPc = "idle"
    /\ IF rtI < retries
         THEN /\ rtPc' = "calling"
              /\ rtOut' = rtOut
         ELSE /\ rtPc' = "thrown"
              /\ rtOut' = [kind |-> "error", val |-> lastError]
    /\ UNCHANGED <<retries, delay, rtI, lastError, rtCalls, rtWaits>>
    /\ UNCHANGED <<pgVars, appVars, fnVars, rkVars, tpVars, anVars, upVars>>

\* return await fn()
FnResolves(v) ==
    /\ rtPc = "calling"
    /\ rtCalls' = Append(rtCalls, [ok |-> TRUE, val |-> v])
    /\ rtOut' = [kind |-> "value", val |-> v]
    /\ rtPc' = "returned"
    /\ UNCHANGED <<retries, delay, rtI, lastError, rtWaits>>
    /\ UNCHANGED <<pgVars, appVars, fnVars, rkVars, tpVars, anVars, upVars>>

\* catch (error): remember it and arm the backoff timer
FnRejects(e) ==
    /\ rtPc = "calling"
    /\ rtCalls' = Append(rtCalls, [ok |-> FALSE, val |-> e])
    /\ lastError' = e
    /\ rtPc' = "waiting"
    /\ UNCHANGED <<retries, delay, rtI, rtWaits, rtOut>>
    /\ UNCHANGED <<pgVars, appVars, fnVars, rkVars, tpVars, anVars, upVars>>

\* the timer fires: i++, then the next fn() or, past the last attempt,
\* throw lastError
BackoffElapses ==
    /\ rtPc = "waiting"
    /\ rtWaits' = Append(rtWaits, Backoff(delay, rtI))
    /\ rtI' = rtI + 1
    /\ IF rtI' < retries
         THEN /\ rtPc' = "calling"
              /\ rtOut' = rtOut
         ELSE /\ rtPc' = "thrown"
              /\ rtOut' = [kind |-> "error", val |-> lastError]
    /\ UNCHANGED <<retries, delay, lastError, rtCalls>>
    /\ UNCHANGED <<pgVars, appVars, fnVars, rkVars, tpVars, anVars, upVars>>

RetryNext ==
    \/ WithRetry
    \/ \E v \in Values : FnResolves(v)
    \/ \E e \in Errors : FnRejects(e)
    \/ BackoffElapses

RetrySpec == RetryInit /\ [][RetryNext]_vars

\* ------------------------------------------- UploadSpec: the upload queue
\* a File: its name as base and extension, whether the parser chosen by the
\* extension can read it, and the text that parser extracts
UploadFiles ==
    {[base |-> "cv", ext |-> "pdf", readable |-> FALSE, text |-> <<>>],
     [base |-> "cv", ext |-> "pdf", readable |-> TRUE, text |-> <<>>],
     [base |-> "cv", ext |-> "txt", readable |-> TRUE, text |-> <<" ">>],
     [base |-> "cv", ext |-> "txt", readable |-> TRUE, text |-> <<"a", " ">>]}

\* the FileList of one drop or selection: never empty
FileLists == UNION {[1..n -> UploadFiles] : n \in 1..MaxFiles}

ParseFileNoEmptyCheck(file) ==
    IF ~file.readable
    THEN [ok |-> FALSE, name |-> "", text |-> <<>>, msg |-> "Failed to parse"]
    ELSE [ok |-> TRUE, name |-> file.base, text |-> file.text, msg |-> ""]

\* parseFile: the name without its extension and the extracted text, or an
\* error when the parser throws or the text is empty after trim()
ParseFile(file) ==
    IF ~file.readable
    THEN [ok |-> FALSE, name |-> "", text |-> <<>>, msg |-> "Failed to parse"]
    ELSE IF file.text = <<>> \/ Len(Trim(file.text)) = 0
    THEN [ok |-> FALSE, name |-> "", text |-> <<>>, msg |-> "No text content found"]
    ELSE [ok |-> TRUE, name |-> file.base, text |-> file.text, msg |-> ""]

\* files.map(f => ({ id, name, status: 'processing', fileObject })); the ids
\* f_<Date.now()>_<Math.random()> are distinct
NewQueueItems(u, files) ==
    [k \in 1..Len(files) |->
        [id |-> <<u, k>>, name |-> files[k].base \o "." \o files[k].ext,
         status |-> "processing", errorMsg |-> "", fileObject |-> files[k]]]

\* prev.map(q => q.id === item.id ? { ...q, status, errorMsg } : q)
SettleItem(queue, id, status, msg) ==
    [k \in 1..Len(queue) |->
        IF queue[k].id = id
        THEN [queue[k] EXCEPT !.status = status, !.errorMsg = msg]
        ELSE queue[k]]

\* the queue items made so far: upload and position
ItemIds ==
    {id \in (1..MaxDrops) \X (1..MaxFiles) :
        id[1] <= Len(upTasks) /\ id[2] <= Len(upTasks[id[1]].items)}

UploadInit ==
    /\ PgIdle
    /\ PgOff
    /\ FnOff
    /\ RkOff
    /\ TpOff
    /\ AnOff
    /\ RtOff
    /\ uploadQueue = <<>>
    /\ upTasks = <<>>
    /\ upParses = <<>>
    /\ upAdded = <<>>
    /\ upNextId = 1

\* handleDrop / handleFileSelect: the new items go to the front of the queue
\* and parseFile starts on the first of them
ProcessFiles(files) ==
    /\ upNextId <= MaxDrops
    /\ Cardinality(ItemIds) + Len(files) <= MaxFiles
    /\ LET items == NewQueueItems(upNextId, files)
       IN /\ uploadQueue' = items \o uploadQueue
          /\ upTasks' = Append(upTasks, [items |-> items, k |-> 1, pc |-> "parsing"])
          /\ upParses' = Append(upParses, items[1].id)
    /\ upNextId' = upNextId + 1
    /\ UNCHANGED upAdded
    /\ UNCHANGED <<pgVars, appVars, fnVars, rkVars, tpVars, anVars, rtVars>>

\* parseFile of the current item settles: the candidate is added and the item
\* marked 'success', or the catch marks it 'error'; then the loop goes on to
\* the next item
ParseSettles(u) ==
    /\ u \in 1..Len(upTasks)
    /\ upTasks[u].pc = "parsing"
    /\ LET task == upTasks[u]
           item == task.items[task.k]
           res == ParseFile(item.fileObject)
       IN /\ IF res.ok
               THEN /\ upAdded' = Append(upAdded, [name |-> res.name, rawText |-> res.text,
                                                   status |-> "pending"])
                    /\ uploadQueue' = SettleItem(uploadQueue, item.id, "success", "")
               ELSE /\ upAdded' = upAdded
                    /\ uploadQueue' = SettleItem(uploadQueue, item.id, "error", res.msg)
          /\ IF task.k < Len(task.items)
               THEN /\ upTasks' = [upTasks EXCEPT ![u].k = task.k + 1]
                    /\ upParses' = Append(upParses, task.items[task.k + 1].id)
               ELSE /\ upTasks' = [upTasks EXCEPT ![u].pc = "done"]
                    /\ upParses' = upParses
    /\ UNCHANGED upNextId
    /\ UNCHANGED <<pgVars, appVars, fnVars, rkVars, tpVars, anVars, rtVars>>

\* another tab is opened and the resume tab opened again: the view is
\* mounted anew with an empty queue, the running loops go on
LeaveTab ==
    /\ uploadQueue # <<>>
    /\ uploadQueue' = <<>>
    /\ UNCHANGED <<upTasks, upParses, upAdded, upNextId>>
    /\ UNCHANGED <<pgVars, appVars, fnVars, rkVars, tpVars, anVars, rtVars>>

UploadNext ==
    \/ \E files \in FileLists : ProcessFiles(files)
    \/ \E u \in 1..MaxDrops : ParseSettles(u)
    \/ LeaveTab

UploadSpec == UploadInit /\ [][UploadNext]_vars

\* ------------------------------------------------------------ PagSpec claims
\* C1 - Conservation: the pages of a finished run, concatenated in page
\* order, are exactly the input block list: every block once, in order.
C1_Conservation ==
    pgPc = "done" => Flatten(pgPages) = Iota(Len(pgHeights))

C1_Witness ==
    /\ pgPc = "done"
    /\ Len(pgHeights) >= 3
    /\ Len(pgPages) >= 2

\* C2 - Budget respect: every page of a finished run has a summed block
\* height of at most the budget, unless it is a single block that alone
\* exceeds the budget.
C2_BudgetRespect ==
    pgPc = "done" =>
        \A p \in 1..Len(pgPages) :
            \/ SumHeights(pgPages[p], pgHeights) <= pgBudget
            \/ /\ Len(pgPages[p]) = 1
               /\ pgHeights[pgPages[p][1]] > pgBudget

C2_Witness ==
    /\ pgPc = "done"
    /\ \E p \in 1..Len(pgPages) :
           /\ Len(pgPages[p]) >= 2
           /\ SumHeights(pgPages[p], pgHeights) = pgBudget
           /\ pgBudget > 0
    /\ \E p \in 1..Len(pgPages) :
           SumHeights(pgPages[p], pgHeights) > pgBudget

\* C3 - Oversized-block guarantee: a block higher than the budget is on a
\* page of its own, wherever it stands in the list.
C3_OversizedAlone ==
    pgPc = "done" =>
        \A k \in 1..Len(pgHeights) :
            pgHeights[k] > pgBudget =>
                \E p \in 1..Len(pgPages) : pgPages[p] = <<k>>

\* an oversized block in the middle, after a block of height 0
C3_Witness ==
    /\ pgPc = "done"
    /\ Len(pgHeights) >= 3
    /\ pgHeights[1] = 0
    /\ pgHeights[2] > pgBudget
    /\ pgBudget > 0
    /\ pgPages = << <<1>>, <<2>>, <<3>> >>

C10_EmptyInput ==
    (pgPc = "done" /\ pgHeights = <<>>) => pgPages = <<>>

C10_Witness ==
    /\ pgPc = "done"
    /\ pgHeights = <<>>
    /\ pgIdx = 0


\* --------------------------------------------------------- Spec claims
\* C4 - Failure propagation: once html2canvas has rejected for page i of a
\* job, the job is failed, pdf.save is never called for it, no file is
\* offered, and no page after i is handed to html2canvas.
C4_FailurePropagates ==
    \A j \in 1..Len(jobs) :
        jobs[j].failedAt >= 0 =>
            /\ jobs[j].pc = "failed"
            /\ ~jobs[j].saved
            /\ jobs[j].fileName = NoData
            /\ jobs[j].rasterCalls = jobs[j].failedAt + 1

\* the second of two pages fails: one page is already in the document
C4_Witness ==
    \E j \in 1..Len(jobs) :
        /\ jobs[j].failedAt = 1
        /\ Len(jobs[j].pages) = 2
        /\ Len(jobs[j].pdf[1].images) = 1

\* C5 - At most one export job is active: between a request and the end of
\* its generate task no second generate task is scheduled or running.
C5_SingleActiveJob ==
    Cardinality({j \in 1..Len(jobs) : Running(jobs[j])}) <= 1

\* C6 - Guaranteed release: when a job is over, on success or on failure,
\* its staging container is no longer in document.body.
C6_StagingReleased ==
    \A j \in 1..Len(jobs) : Over(jobs[j]) => ~jobs[j].inBody

\* C7 - Page numbering: the footer of the k-th physical page reads
\* "Page k of N" with N the number of pages of the partition, every stamped
\* page carries exactly one footer, and a saved document has N pages.
Footers(page) ==
    {t \in 1..Len(page.texts) : page.texts[t].label = "Page of"}

C7_PageNumbering ==
    \A j \in 1..Len(jobs) :
        LET job == jobs[j] IN
        /\ \A k \in 1..Len(job.pdf) :
               \A t \in Footers(job.pdf[k]) :
                   job.pdf[k].texts[t] = Text("Page of", "", 0, k, Len(job.pages))
        /\ job.saved =>
               /\ Len(job.pdf) = Len(job.pages)
               /\ \A k \in 1..Len(job.pdf) :
                      Cardinality(Footers(job.pdf[k])) = 1

C7_Witness ==
    \E j \in 1..Len(jobs) :
        /\ jobs[j].saved
        /\ Len(jobs[j].pdf) = 2

\* C8 - The candidate's name never reaches drawn chrome text: two jobs that
\* differ only in the candidate's name hand the same strings to pdf.text on
\* every page they stamp on the same day.
OnlyNameDiffers(a, b) ==
    /\ a.data.name # b.data.name
    /\ a.data.type = b.data.type
    /\ a.heights = b.heights
    /\ a.budget = b.budget

C8_NameNotInChrome ==
    \A a \in 1..Len(jobs), b \in 1..Len(jobs) :
        OnlyNameDiffers(jobs[a], jobs[b]) =>
            \A k \in 1..Len(jobs[a].pdf) :
                (k <= Len(jobs[b].pdf) /\ jobs[a].pdf[k].day = jobs[b].pdf[k].day)
                    => jobs[a].pdf[k].texts = jobs[b].pdf[k].texts

C8_Witness ==
    \E a \in 1..Len(jobs), b \in 1..Len(jobs) :
        /\ OnlyNameDiffers(jobs[a], jobs[b])
        /\ jobs[a].saved
        /\ jobs[b].saved
        /\ Len(jobs[a].pdf) >= 2
        /\ \A k \in 1..Len(jobs[a].pdf) :
               /\ jobs[a].pdf[k].day = jobs[b].pdf[k].day
               /\ Len(jobs[a].pdf[k].texts) = 3


\* C11 - Every started export job ends in exactly one of two outcomes:
\* success (file saved, success log entry, no alert) or failure (alert, error
\* log entry naming the candidate, no file); the step that ends it resets
\* exportData to null, and a job that has ended never runs again.
Succeeded(job) ==
    /\ job.pc = "done"
    /\ job.saved
    /\ ~job.alerted
    /\ job.log[Len(job.log)] = [type |-> "success", name |-> job.data.name]

Failed(job) ==
    /\ job.pc = "failed"
    /\ ~job.saved
    /\ job.alerted
    /\ job.log[Len(job.log)] = [type |-> "error", name |-> job.data.name]

C11_JobOutcome ==
    /\ [](\A j \in 1..Len(jobs) :
              Over(jobs[j]) => (Succeeded(jobs[j]) \/ Failed(jobs[j])))
    /\ [][\A j \in 1..Len(jobs) :
              (Running(jobs[j]) /\ Over(jobs'[j])) =>
                  (exportData' = NoData /\ Len(jobs') = Len(jobs))]_vars
    /\ [][\A j \in 1..Len(jobs) : Over(jobs[j]) => jobs'[j] = jobs[j]]_vars
    /\ \A j \in 1..MaxJobs :
           [](Len(jobs) >= j => <>(Len(jobs) >= j /\ Over(jobs[j])))

C11_Witness ==
    /\ Len(jobs) = 2
    /\ Succeeded(jobs[1])
    /\ Failed(jobs[2])
    /\ exportData = NoData


\* C12 - The left header names the export kind: two jobs that differ only
\* in the export type (report, guide) draw different left header labels.
Stamped(job) == Len(job.pdf) >= 1 /\ Len(job.pdf[1].texts) >= 1

C12_HeaderNamesKind ==
    \A a \in 1..Len(jobs), b \in 1..Len(jobs) :
        ( /\ Stamped(jobs[a])
          /\ Stamped(jobs[b])
          /\ jobs[a].data.name = jobs[b].data.name
          /\ jobs[a].data.type # jobs[b].data.type )
        => jobs[a].pdf[1].texts[1].label # jobs[b].pdf[1].texts[1].label


\* C13 - File naming: the saved name is kind_job_name_score.pdf; kind is
\* fixed by export type and language, job is the title or 'Job', name is
\* the candidate name or 'Candidate', score is the total score or '0' when
\* the analysis or the score is absent or 0; nothing else is appended.
C13_Kind ==
    CASE fnIn.type = "report" /\ fnIn.language = "zh" -> "JianLiFenXi"
      [] fnIn.type = "report" /\ fnIn.language = "en" -> "Analysis"
      [] fnIn.type = "guide" /\ fnIn.language = "zh" -> "MianShiZhiNan"
      [] fnIn.type = "guide" /\ fnIn.language = "en" -> "InterviewGuide"

C13_Score ==
    IF ~fnIn.analysis.has \/ ~fnIn.analysis.hasScore THEN "0"
    ELSE ToString(fnIn.analysis.totalScore)

C13_FileNaming ==
    fnPc = "saved" =>
        fnOut = C13_Kind \o "_"
                \o (IF fnIn.title = "" THEN "Job" ELSE fnIn.title) \o "_"
                \o (IF fnIn.name = "" THEN "Candidate" ELSE fnIn.name) \o "_"
                \o C13_Score \o ".pdf"

C13_Witness ==
    /\ fnPc = "saved"
    /\ fnIn.name = ""
    /\ fnIn.title = ""
    /\ fnIn.analysis = [has |-> TRUE, hasScore |-> TRUE, totalScore |-> 0]
    /\ fnOut = "Analysis_Job_Candidate_0.pdf"


\* C14 - Ranking: the dashboard rows are exactly the completed candidates,
\* each once, in order of non-increasing total score (a missing score counts
\* as 0), and the k-th row shows rank k.
C14_Ranking ==
    rkPc = "rendered" =>
        LET done == {k \in 1..Len(rkCandidates) :
                        rkCandidates[k].status = "completed"}
            scoreOf(k) ==
                IF rkCandidates[k].analysis.has /\ rkCandidates[k].analysis.hasScore
                THEN rkCandidates[k].analysis.totalScore ELSE 0
        IN /\ Len(rkRows) = Cardinality(done)
           /\ {rkRows[k].id : k \in 1..Len(rkRows)} = done
           /\ \A k \in 1..Len(rkRows) :
                  /\ rkRows[k].rank = k
                  /\ rkRows[k].score = scoreOf(rkRows[k].id)
           /\ \A k \in 1..(Len(rkRows) - 1) :
                  rkRows[k].score >= rkRows[k + 1].score

\* a list with a candidate that is not completed, a completed one without
\* a score and two completed ones with different scores in rising order
C14_Witness ==
    /\ rkPc = "rendered"
    /\ Len(rkCandidates) = 3
    /\ Len(rkRows) = 2
    /\ rkRows[1].id > rkRows[2].id
    /\ rkRows[1].score > rkRows[2].score
    /\ ~rkCandidates[rkRows[2].id].analysis.has


\* C15 - The loop computes the greedy partition: pages are consecutive runs
\* of the block list, none empty; a block joins a non-empty page whenever
\* the page stays within the budget, and a page is closed only in front of
\* a block that would take it strictly over the budget. So [200, 300, 250]
\* under 500 gives [[200, 300], [250]] and [900] under 500 gives [[900]].
C15_Greedy ==
    pgPc = "done" =>
        /\ Flatten(pgPages) = Iota(Len(pgHeights))
        /\ \A p \in 1..Len(pgPages) :
               /\ Len(pgPages[p]) >= 1
               /\ Len(pgPages[p]) >= 2 =>
                      SumHeights(pgPages[p], pgHeights) <= pgBudget
        /\ \A p \in 1..(Len(pgPages) - 1) :
               SumHeights(pgPages[p], pgHeights)
                   + pgHeights[pgPages[p + 1][1]] > pgBudget
        /\ (pgHeights = <<200, 300, 250>> /\ pgBudget = 500)
               => pgPages = << <<1, 2>>, <<3>> >>
        /\ (pgHeights = <<900>> /\ pgBudget = 500) => pgPages = << <<1>> >>

C15_Witness ==
    /\ pgPc = "done"
    /\ pgHeights = <<200, 300, 250>>
    /\ pgBudget = 500
    /\ pgPages = << <<1, 2>>, <<3>> >>


BlocksOf(clones) == [n \in 1..Len(clones) |-> clones[n].block]

C17_StagingIsolation ==
    \A j \in 1..Len(jobs) :
        LET job == jobs[j] IN
        /\ job.pc = "raster" => BlocksOf(job.temp) = job.pages[job.i + 1]
        /\ \A k \in 1..Len(job.pdf) :
               \A m \in 1..Len(job.pdf[k].images) :
                   BlocksOf(job.pdf[k].images[m].content) = job.pages[k]

\* the second page of a report is being captured after its first page, of
\* two blocks, was placed
C17_Witness ==
    \E j \in 1..Len(jobs) :
        /\ jobs[j].pc = "raster"
        /\ jobs[j].i = 1
        /\ Len(jobs[j].pdf) = 1
        /\ BlocksOf(jobs[j].pdf[1].images[1].content) = <<1, 2>>
        /\ BlocksOf(jobs[j].temp) = <<3>>


\* C18 - Measurement error is fatal: a job whose blocks could not be
\* measured (the container was detached, so every offsetHeight and margin
\* read gave the default 0) ends in failure and saves no file. Rendered
\* blocks have positive heights, so a height of 0 is the substituted default.
DefaultHeight == GetElementHeight(0, 0, 0)

C18_MeasurementFatal ==
    \A j \in 1..Len(jobs) :
        (\E k \in 1..Len(jobs[j].heights) : jobs[j].heights[k] = DefaultHeight) =>
            /\ jobs[j].pc = "failed"
            /\ ~jobs[j].saved
            /\ jobs[j].pages = <<>>


\* C19 - Assembly order and page count: pages are captured one at a time in
\* increasing page order; a physical page is added before every page but
\* the first; the k-th physical page carries one image, the capture of the
\* k-th page of the partition, at x = 0, y = 20 mm and the full document
\* width; a saved document of an N-page partition (N >= 1) has N pages.
ImageOf(job, k) ==
    /\ Len(job.pdf[k].images) = 1
    /\ BlocksOf(job.pdf[k].images[1].content) = job.pages[k]
    /\ job.pdf[k].images[1].x = 0
    /\ job.pdf[k].images[1].y = 20
    /\ job.pdf[k].images[1].w = 210

C19_Assembly ==
    \A j \in 1..Len(jobs) :
        LET job == jobs[j] IN
        /\ job.pc = "raster" =>
               /\ job.rasterCalls = job.i + 1
               /\ Len(job.pdf) = (IF job.i = 0 THEN 1 ELSE job.i)
               /\ \A k \in 1..job.i : ImageOf(job, k)
        /\ \A k \in 1..Len(job.pdf) :
               job.pdf[k].images # <<>> => k <= Len(job.pages) /\ ImageOf(job, k)
        /\ (job.saved /\ Len(job.pages) >= 1) =>
               /\ Len(job.pdf) = Len(job.pages)
               /\ job.rasterCalls = Len(job.pages)
               /\ \A k \in 1..Len(job.pdf) : ImageOf(job, k)

\* a two-page report was assembled and saved
C19_Witness ==
    \E j \in 1..Len(jobs) :
        /\ jobs[j].saved
        /\ Len(jobs[j].pages) = 2
        /\ Len(jobs[j].pdf) = 2


\* C20 - Top-of-page margin fix-up: on every page of the partition, the
\* first included, the clone of the page's first block is captured with its
\* top margin set to 0, and the margin of no other clone is changed.
FixedUp(clones) == \A n \in 1..Len(clones) : clones[n].marginTop0 <=> (n = 1)

C20_MarginFixUp ==
    \A j \in 1..Len(jobs) :
        /\ jobs[j].pc = "raster" =>
               /\ jobs[j].temp # <<>>
               /\ FixedUp(jobs[j].temp)
        /\ \A k \in 1..Len(jobs[j].pdf) :
               \A m \in 1..Len(jobs[j].pdf[k].images) :
                   /\ jobs[j].pdf[k].images[m].content # <<>>
                   /\ FixedUp(jobs[j].pdf[k].images[m].content)

\* the first page of a document was captured with two blocks on it
C20_Witness ==
    \E j \in 1..Len(jobs) :
        /\ Len(jobs[j].pdf) >= 1
        /\ jobs[j].pdf[1].images # <<>>
        /\ Len(jobs[j].pdf[1].images[1].content) = 2
        /\ jobs[j].pdf[1].images[1].content[1].marginTop0
        /\ ~jobs[j].pdf[1].images[1].content[2].marginTop0


\* C21 - Budget: the budget of a job is (297 - 20 - 20 - 5) * width / 210 px
\* for the width its container measured (0 when detached); it is fixed
\* when the job paginates, never changes afterwards, and every page of the
\* job was closed against that one value.
Measured(job) == job.heights # <<>>

PageHeight(job, k) == SumHeights(job.pages[k], job.heights)

C21_BudgetValue ==
    \A j \in 1..Len(jobs) :
        LET job == jobs[j] IN
        Measured(job) =>
            /\ \E w \in {0, AttachedWidthPx} :
                   /\ job.budget * 210 = (297 - 20 - 20 - 5) * w
                   /\ (w = 0) <=> (\A n \in 1..Len(job.heights) : job.heights[n] = 0)
            /\ \A k \in 1..Len(job.pages) :
                   PageHeight(job, k) <= job.budget \/ Len(job.pages[k]) = 1

C21_Budget ==
    /\ []C21_BudgetValue
    /\ [][\A j \in 1..Len(jobs) :
              Measured(jobs[j]) =>
                  /\ jobs'[j].budget = jobs[j].budget
                  /\ jobs'[j].pages = jobs[j].pages]_vars

\* a job with a 252 px budget is capturing the second page of its partition
C21_Witness ==
    \E j \in 1..Len(jobs) :
        /\ jobs[j].budget = 252
        /\ jobs[j].pc = "raster"
        /\ jobs[j].i = 1
        /\ Len(jobs[j].pages) = 2


\* ------------------------------------------------------------ TplSpec claims
\* C22 - Guide enumeration: a non-empty guide yields one block per line,
\* as many as it has line breaks plus one, in line order; the block of a
\* line renders the element of the rule its trimmed text matches: '### ' or
\* '## ' heading, '---' or '***' rule, '- ' or '* ' bullet, digits with '.'
\* and white space, blank, and a paragraph when no rule matches. The guide
\* "### Q1\nText\n\n- tip" yields heading, paragraph, spacer, bullet.
LinesOf(blocks) == SelectSeq(blocks, LAMBDA b : b.kind = "line")

NewlineCount(text) == Cardinality({k \in 1..Len(text) : text[k] = "\n"})

RECURSIVE Join(_)
Join(lines) ==
    IF Len(lines) = 1 THEN lines[1]
    ELSE Join(SubSeq(lines, 1, Len(lines) - 1)) \o <<"\n">> \o lines[Len(lines)]

C22_RuleOf(t, el) ==
    LET first(n) == SubSeq(t, 1, n)
        heading3 == Len(t) >= 4 /\ first(4) = <<"#", "#", "#", " ">>
        heading2 == Len(t) >= 3 /\ first(3) = <<"#", "#", " ">>
        rule == t \in {<<"-", "-", "-">>, <<"*", "*", "*">>}
        bullet == Len(t) >= 2 /\ first(2) \in {<<"-", " ">>, <<"*", " ">>}
        numbered == \E n \in 1..Len(t) :
                        /\ Len(t) >= n + 2
                        /\ \A k \in 1..n : t[k] = "1"
                        /\ t[n + 1] = "."
                        /\ t[n + 2] = " "
        blank == Len(t) = 0
    IN /\ heading3 => el = "h3"
       /\ heading2 => el = "h2"
       /\ rule => el = "hr"
       /\ bullet => el = "bullet"
       /\ numbered => el = "numbered"
       /\ blank => el = "spacer"
       /\ ~(heading3 \/ heading2 \/ rule \/ bullet \/ numbered \/ blank) => el = "p"

C22_GuideEnumeration ==
    (tpPc = "rendered" /\ tpIn.type = "guide") =>
        LET lb == LinesOf(tpBlocks)
            lines == Split(tpIn.guide)
        IN /\ Len(lb) = NewlineCount(tpIn.guide) + 1
           /\ Len(lines) = Len(lb)
           /\ Join(lines) = tpIn.guide
           /\ \A k \in 1..Len(lb) :
                  /\ lb[k].idx = k
                  /\ \A c \in 1..Len(lines[k]) : lines[k][c] # "\n"
                  /\ C22_RuleOf(Trim(lines[k]), lb[k].el)
           /\ tpIn.guide = GuideExample =>
                  [k \in 1..Len(lb) |-> lb[k].el] = <<"h3", "p", "spacer", "bullet">>

\* the example guide was rendered to its four line blocks
C22_Witness ==
    /\ tpPc = "rendered"
    /\ tpIn.type = "guide"
    /\ tpIn.guide = GuideExample
    /\ Len(LinesOf(tpBlocks)) = 4


\* C23 - Report enumeration: in the container of a report the document
\* header, the metadata summary, the executive summary text, every risk
\* string and every metric are each shown by exactly one child, in input
\* order, a metric with detail like one without. (Section titles, the
\* table header and spacers are further children of their own.)
UnitKinds == {"header", "info", "summary", "risk", "metric"}

UnitsOf(blocks) == SelectSeq(blocks, LAMBDA b : b.kind \in UnitKinds)

C23_ReportEnumeration ==
    (tpPc = "rendered" /\ tpIn.type = "report") =>
        LET units == UnitsOf(tpBlocks)
            r == tpIn.risks
            m == Len(tpIn.metrics)
        IN /\ Len(units) = 3 + r + m
           /\ units[1].kind = "header"
           /\ units[2].kind = "info"
           /\ units[3].kind = "summary"
           /\ \A k \in 1..r : units[3 + k].kind = "risk" /\ units[3 + k].idx = k
           /\ \A k \in 1..m :
                  /\ units[3 + r + k].kind = "metric"
                  /\ units[3 + r + k].idx = k
                  /\ units[3 + r + k].el = (IF tpIn.metrics[k] THEN "rich" ELSE "compact")

\* a report with two risks, a metric with detail and one without was rendered
C23_Witness ==
    /\ tpPc = "rendered"
    /\ tpIn.type = "report"
    /\ tpIn.risks = 2
    /\ tpIn.metrics = <<TRUE, FALSE>>
    /\ Len(UnitsOf(tpBlocks)) = 7


\* ---------------------------------------------------------- BatchSpec claims
\* C24 - Analysis start guard: a click on start begins a batch (sets
\* isProcessing, marks a candidate 'analyzing', awaits the AI) only when
\* the job description is non-empty, the weights sum to 100 and some
\* candidate is 'pending' or 'failed'; a click made when one of the three
\* fails leaves candidates, isProcessing and the progress counter as they are.
GuardOk ==
    /\ anJob.description # ""
    /\ TotalWeight(anJob.weights) = 100
    /\ \E k \in 1..Len(anCandidates) : anCandidates[k].status \in {"pending", "failed"}

ClickStep ==
    \/ anAlert' # anAlert /\ anAlert' # "none"
    \/ isProcessing' /\ ~isProcessing

C24_StartGuard ==
    [][ClickStep =>
          IF GuardOk
          THEN /\ isProcessing'
               /\ anTask'.pc = "awaiting"
               /\ \E k \in 1..Len(anCandidates') : anCandidates'[k].status = "analyzing"
          ELSE UNCHANGED <<anCandidates, isProcessing, analysisProgress>>]_vars

\* start was refused for the weights although a resume is pending
C24_Witness ==
    /\ anAlert = "weight"
    /\ ~isProcessing
    /\ \E k \in 1..Len(anCandidates) : anCandidates[k].status = "pending"

\* C27 - Candidate status transitions: a candidate's status changes only
\* along pending -> analyzing, failed -> analyzing, analyzing -> completed
\* and analyzing -> failed; a completed candidate is never analyzed again;
\* at most one candidate is 'analyzing' at any time.
StatusOf(cands, id) ==
    LET hit == SelectSeq(cands, LAMBDA c : c.id = id)
    IN IF hit = <<>> THEN "absent" ELSE hit[1].status

AllowedTransitions ==
    {<<"pending", "analyzing">>, <<"failed", "analyzing">>,
     <<"analyzing", "completed">>, <<"analyzing", "failed">>}

C27_OneAnalyzing ==
    Cardinality({k \in 1..Len(anCandidates) : anCandidates[k].status = "analyzing"}) <= 1

C27_StatusTransitions ==
    /\ []C27_OneAnalyzing
    /\ [][\A id \in 1..MaxUploads :
              LET old == StatusOf(anCandidates, id)
                  new == StatusOf(anCandidates', id)
              IN (old # "absent" /\ new # "absent" /\ old # new) =>
                     <<old, new>> \in AllowedTransitions]_vars

\* C28 - No candidate is left in 'analyzing': whenever isProcessing is
\* false, no candidate has the status 'analyzing', also after the state
\* persisted in the middle of a batch is loaded again.
C28_NoneLeftAnalyzing ==
    ~isProcessing =>
        \A k \in 1..Len(anCandidates) : anCandidates[k].status # "analyzing"


\* ------------------------------------------------------ Spec claims, continued
\* C25 - A job paginates the content of its own request: the children a
\* job measures and captures were rendered for the candidate and export
\* type the job names in its log and file name, also when a second export
\* is requested before the job has read the children.
C25_OwnContent ==
    \A j \in 1..Len(jobs) :
        Measured(jobs[j]) => jobs[j].rendered = jobs[j].data


C29_Retry ==
    /\ Len(rtCalls) + (IF rtPc = "calling" THEN 1 ELSE 0) <= retries
    /\ rtPc = "calling" => Len(rtWaits) = Len(rtCalls)
    /\ \A k \in 1..Len(rtCalls) :
         rtCalls[k].ok => k = Len(rtCalls) /\ rtPc = "returned"
    /\ rtPc = "returned" =>
         /\ rtCalls[Len(rtCalls)].ok
         /\ rtOut = [kind |-> "value", val |-> rtCalls[Len(rtCalls)].val]
    /\ \A k \in 1..Len(rtWaits) :
         ~rtCalls[k].ok /\ rtWaits[k] = delay * 2 ^ (k - 1)
    /\ rtPc = "thrown" =>
         /\ Len(rtCalls) = retries
         /\ Len(rtWaits) = retries
         /\ retries >= 1 =>
              rtOut = [kind |-> "error", val |-> rtCalls[retries].val]

C29_Witness ==
    /\ rtPc = "thrown"
    /\ retries = 3
    /\ delay = 1000
    /\ rtWaits = <<1000, 2000, 4000>>
    /\ rtCalls[1].val = "timeout"
    /\ rtOut = [kind |-> "error", val |-> "quota"]

\* -------------------------------------------------------- UploadSpec claims
\* a file fails when its parser throws or its text is empty or blank
Fails(file) ==
    ~file.readable \/ \A k \in 1..Len(file.text) : file.text[k] = " "

\* item j of upload u has been through its parse
Settled(u, j) == j < upTasks[u].k \/ upTasks[u].pc = "done"

StatusIn(queue, id) ==
    IF \E k \in 1..Len(queue) : queue[k].id = id
    THEN (CHOOSE q \in {queue[k] : k \in 1..Len(queue)} : q.id = id).status
    ELSE "absent"

C30_QueueState ==
    /\ \A u \in 1..Len(upTasks) :
         \* parsed one at a time, in the given order, past failed files too
         /\ SelectSeq(upParses, LAMBDA id : id[1] = u)
              = [j \in 1..upTasks[u].k |-> <<u, j>>]
         /\ upTasks[u].pc = "done" => upTasks[u].k = Len(upTasks[u].items)
    /\ \A id \in ItemIds :
         LET file == upTasks[id[1]].items[id[2]].fileObject
         IN StatusIn(uploadQueue, id) \in
              {"absent",
               IF ~Settled(id[1], id[2]) THEN "processing"
               ELSE IF Fails(file) THEN "error" ELSE "success"}
    /\ Len(upAdded) = Cardinality({id \in ItemIds :
            /\ Settled(id[1], id[2])
            /\ ~Fails(upTasks[id[1]].items[id[2]].fileObject)})
    /\ \A k \in 1..Len(upAdded) : upAdded[k].status = "pending"

C30_QueueStep ==
    /\ \A id \in ItemIds :
         LET before == StatusIn(uploadQueue, id)
             after == StatusIn(uploadQueue', id)
         IN \/ after = before
            \/ after = "absent"
            \/ before = "processing" /\ after \in {"success", "error"}
    /\ \A u \in 1..Len(upTasks) :
         (upTasks'[u] # upTasks[u]) =>
            LET file == upTasks[u].items[upTasks[u].k].fileObject
            IN IF Fails(file)
               THEN upAdded' = upAdded
               ELSE /\ Len(upAdded') = Len(upAdded) + 1
                    /\ upAdded'[Len(upAdded')].status = "pending"
                    /\ upAdded'[Len(upAdded')].rawText = file.text
                    /\ SubSeq(upAdded', 1, Len(upAdded)) = upAdded
    /\ (\A u \in 1..Len(upTasks) : upTasks'[u] = upTasks[u]) => upAdded' = upAdded

\* C30 - Upload queue: the files of one upload are handed to parseFile one at
\* a time in the given order; an item shown in the queue is 'processing'
\* until its parse settles and then 'success' or 'error' for good; a
\* 'pending' candidate is added exactly when a file's parse succeeded; and a
\* failed file (parser error or empty text) is followed by the parse of the
\* next file.
C30_UploadQueue == []C30_QueueState /\ [][C30_QueueStep]_vars

C30_Witness ==
    /\ Len(upTasks) = 2
    /\ upTasks[1].pc = "done"
    /\ Len(upTasks[1].items) = 2
    /\ ~upTasks[1].items[1].fileObject.readable
    /\ ~Fails(upTasks[1].items[2].fileObject)
    /\ upTasks[2].pc = "parsing"
    /\ StatusIn(uploadQueue, <<1, 1>>) = "error"
    /\ StatusIn(uploadQueue, <<1, 2>>) = "success"
    /\ StatusIn(uploadQueue, <<2, 1>>) = "processing"
    /\ Len(upAdded) = 1

====
